---- MODULE Spec2Model ----
(***************************************************************************)
(* State-machine model of the I2C debug shell (src/i2c-debug-tool.ino):    *)
(* the chunked ranged register read, the single-register read, the device  *)
(* matcher over the built-in table and the EEPROM slots, the guided add    *)
(* flow and the bus scan.                                                  *)
(*                                                                         *)
(* Bytes are integers 0..255 and every uint8_t computation is reduced      *)
(* modulo 256 where the C++ code stores it into a uint8_t.  Text typed by  *)
(* the operator is a sequence of one-character strings.  The I2C transport *)
(* (Wire) is the environment: each transaction's outcome is a              *)
(* nondeterministic choice.                                                *)
(***************************************************************************)
EXTENDS Integers, Sequences, FiniteSets, TLC

VARIABLES
    pc,               \* position of the single thread of control
    charSigned,       \* build property: is plain char a signed type (AVR) or not (ARM)
    store,            \* EEPROM content: slot index -> stored I2C_DeviceInfo record
    addr,             \* i2cReadRange: parameter addr
    startReg,         \* i2cReadRange: parameter startReg
    endReg,           \* i2cReadRange: parameter endReg
    reg,              \* i2cReadRange: local reg (uint8_t)
    result,           \* i2cReadRange: "none" while running, else "true" or "false" as returned
    errReg,           \* i2cReadRange: register printed by the failure message, -1 if none
    chunks,           \* i2cReadRange: the lines printed so far, <<chunkStart, chunkLen>>
    wire,             \* transport transactions issued by the running engine call
    scanAddr,         \* cmdScan: loop variable addr
    dAddr,            \* describeI2CAddress: parameter addr
    idx,              \* describeI2CAddress: position in the catalog walk
    confirmedNames,   \* describeI2CAddress: local confirmedNames
    possibleNames,    \* describeI2CAddress: local possibleNames
    hasDatabaseMatch, \* describeI2CAddress: local hasDatabaseMatch
    reads,            \* identification reads done by the running describeI2CAddress
    shown,            \* what describeI2CAddress printed: kind and names
    slot,             \* promptAddDeviceToEeprom: local slot
    info,             \* promptAddDeviceToEeprom: local info
    answered,         \* the last prompt the operator answered and the answer
    addResult,        \* how the last promptAddDeviceToEeprom ended
    probe,            \* eepromSlotUsed: the record under test
    used              \* eepromSlotUsed: "none" before the call, else "true" or "false"

vars == << pc, charSigned, store, addr, startReg, endReg, reg, result, errReg,
           chunks, wire, scanAddr, dAddr, idx, confirmedNames, possibleNames,
           hasDatabaseMatch, reads, shown, slot, info, answered, addResult,
           probe, used >>

rangeVars == << addr, startReg, endReg, reg, result, errReg, chunks, wire >>
descVars  == << dAddr, idx, confirmedNames, possibleNames, hasDatabaseMatch,
                reads, shown >>
addVars   == << slot, info, answered, addResult >>
occVars   == << probe, used >>

-----------------------------------------------------------------------------
(* Widths and program constants *)

Byte == 0..255

U8(n) == n % 256

U16(n) == n % 65536

MAX_CHUNK == 16

EEPROM_MAX_DEVICES == 8

NUM_I2C_DEVICES == 9

NO_ID_REG == 255

MAX_7BIT == 127

SCAN_END == 128

(* Longest history of one engine call that is recorded.  A call over at most
   256 registers in chunks of at least one byte needs no more. *)
MaxHist == 17

RECURSIVE BitAnd(_, _)
BitAnd(a, b) ==
    IF a = 0 \/ b = 0 THEN 0
    ELSE (a % 2) * (b % 2) + 2 * BitAnd(a \div 2, b \div 2)

SeqRange(s) == { s[i] : i \in 1..Len(s) }

-----------------------------------------------------------------------------
(* The erased EEPROM cell pattern and records *)

Record(a, n0, r, e, m) ==
    [ address |-> a, name0 |-> n0, chip_id_reg |-> r,
      expected_chip_id |-> e, id_mask |-> m ]

ErasedRecord == Record(255, 255, 255, 255, 255)

NoRecord == Record(0, 0, 0, 0, 0)

-----------------------------------------------------------------------------
(* Wire: the I2C transport.  A transaction is logged as a record.           *)

(* endTransmission(false) after beginTransmission(a); write(r): the pointer-set *)
PtrTxn(a, r, err) == [ kind |-> "ptr", addr |-> a, reg |-> r, n |-> 0, ok |-> (err = 0) ]

(* requestFrom(a, n) that delivered got bytes *)
BurstTxn(a, n, got) == [ kind |-> "burst", addr |-> a, reg |-> -1, n |-> n, ok |-> (got = n) ]

(* endTransmission() results: 0 = success, 2 = NACK on address (any non-zero fails) *)
WireErrs == {0, 2}

(* requestFrom(a, n) returns the number of bytes received, at most n *)
GotSet(n) == {n} \cup { g \in {0, n - 1} : g >= 0 /\ g < n }

(* Log a transaction while the recorded history has room *)
Log(w, t) == IF Len(w) < 2 * MaxHist THEN Append(w, t) ELSE w

Emit(c, line) == IF Len(c) < MaxHist THEN Append(c, line) ELSE c

-----------------------------------------------------------------------------
(* i2cReadRange *)

(* RangeRejected with the comparison the wrong way round *)
RangeRejected_Swapped(s, e) == s < e

(* if (endReg < startReg) return false; *)
RangeRejected(s, e) == e < s

(* uint8_t remaining = endReg - reg + 1; *)
Remaining(e, r) == U8(e - r + 1)

(* uint8_t chunkLen = remaining > 16 ? 16 : remaining; *)
ChunkLen(e, r) == IF Remaining(e, r) > MAX_CHUNK THEN MAX_CHUNK ELSE Remaining(e, r)

(* reg++ executed n times on a uint8_t *)
AdvanceReg(r, n) == U8(r + n)

(* while (reg <= endReg) *)
LoopContinues(r, e) == r <= e

IdleRange ==
    /\ addr = 0 /\ startReg = 0 /\ endReg = 0 /\ reg = 0
    /\ result = "none" /\ errReg = -1 /\ chunks = << >> /\ wire = << >>

(* Entry of i2cReadRange(a, s, e): the range test and the first loop test *)
ReadRangeEnter(a, s, e) ==
    /\ addr' = a /\ startReg' = s /\ endReg' = e
    /\ errReg' = -1 /\ chunks' = << >> /\ wire' = << >>
    /\ IF RangeRejected(s, e)
       THEN /\ reg' = 0
            /\ result' = "false"
            /\ pc' = "rangeDone"
       ELSE /\ reg' = s
            /\ IF LoopContinues(s, e)
               THEN /\ result' = "none"
                    /\ pc' = "rangePtr"
               ELSE /\ result' = "true"
                    /\ pc' = "rangeDone"

(* Loop body, first half: set the register pointer (lines 144-153) *)
RangePointerSet ==
    /\ pc = "rangePtr"
    /\ \E err \in WireErrs :
         /\ wire' = Log(wire, PtrTxn(addr, reg, err))
         /\ IF err # 0
            THEN /\ errReg' = reg
                 /\ result' = "false"
                 /\ pc' = "rangeDone"
            ELSE /\ UNCHANGED << errReg, result >>
                 /\ pc' = "rangeBurst"
    /\ UNCHANGED << addr, startReg, endReg, reg, chunks >>
    /\ UNCHANGED << charSigned, store, scanAddr, descVars, addVars, occVars >>

(* RangeBurstRead with the pointer set only before the first chunk: after a
   chunk the loop goes straight to the next burst read *)
RangeBurstRead_NoPtr ==
    /\ pc = "rangeBurst"
    /\ \E got \in GotSet(ChunkLen(endReg, reg)) :
         LET chunkStart == reg
             chunkLen   == ChunkLen(endReg, reg)
             next       == AdvanceReg(reg, chunkLen)
         IN /\ wire' = Log(wire, BurstTxn(addr, chunkLen, got))
            /\ IF got # chunkLen
               THEN /\ errReg' = reg
                    /\ result' = "false"
                    /\ pc' = "rangeDone"
                    /\ UNCHANGED << reg, chunks >>
               ELSE /\ chunks' = Emit(chunks, << chunkStart, chunkLen >>)
                    /\ reg' = next
                    /\ UNCHANGED errReg
                    /\ IF LoopContinues(next, endReg)
                       THEN /\ result' = "none"
                            /\ pc' = "rangeBurst"
                       ELSE /\ result' = "true"
                            /\ pc' = "rangeDone"
    /\ UNCHANGED << addr, startReg, endReg >>
    /\ UNCHANGED << charSigned, store, scanAddr, descVars, addVars, occVars >>

(* Loop body, second half: burst read, print the line, advance reg, and the
   loop test that follows (lines 155-175, 138, 176) *)
RangeBurstRead ==
    /\ pc = "rangeBurst"
    /\ \E got \in GotSet(ChunkLen(endReg, reg)) :
         LET chunkStart == reg
             chunkLen   == ChunkLen(endReg, reg)
             next       == AdvanceReg(reg, chunkLen)
         IN /\ wire' = Log(wire, BurstTxn(addr, chunkLen, got))
            /\ IF got # chunkLen
               THEN /\ errReg' = reg
                    /\ result' = "false"
                    /\ pc' = "rangeDone"
                    /\ UNCHANGED << reg, chunks >>
               ELSE /\ chunks' = Emit(chunks, << chunkStart, chunkLen >>)
                    /\ reg' = next
                    /\ UNCHANGED errReg
                    /\ IF LoopContinues(next, endReg)
                       THEN /\ result' = "none"
                            /\ pc' = "rangePtr"
                       ELSE /\ result' = "true"
                            /\ pc' = "rangeDone"
    /\ UNCHANGED << addr, startReg, endReg >>
    /\ UNCHANGED << charSigned, store, scanAddr, descVars, addVars, occVars >>

(* cmdDump returns to loop(), which prints the prompt; the locals are gone *)
DumpReturn ==
    /\ pc = "rangeDone"
    /\ pc' = "prompt"
    /\ addr' = 0 /\ startReg' = 0 /\ endReg' = 0 /\ reg' = 0
    /\ result' = "none" /\ errReg' = -1 /\ chunks' = << >> /\ wire' = << >>
    /\ UNCHANGED << charSigned, store, scanAddr, descVars, addVars, occVars >>

(* A call i2cReadRange(a, s, e) with a in A, s in S, e in E.  cmdDump makes
   it with a <= 0x7F, s defaulting to 0x00 and e to 0xFF (lines 351-386) *)
ReadRangeCall(A, S, E) ==
    /\ pc = "prompt"
    /\ \E a \in A, s \in S, e \in E : ReadRangeEnter(a, s, e)
    /\ UNCHANGED << charSigned, store, scanAddr, descVars, addVars, occVars >>

-----------------------------------------------------------------------------
(* Text: a String is a sequence of one-character strings *)

(* String::toUpperCase on one character *)
ToUpperChar(c) ==
    CASE c = "a" -> "A" [] c = "b" -> "B" [] c = "c" -> "C" [] c = "d" -> "D"
      [] c = "e" -> "E" [] c = "f" -> "F" [] c = "g" -> "G" [] c = "n" -> "N"
      [] c = "o" -> "O" [] c = "s" -> "S" [] c = "x" -> "X" [] c = "y" -> "Y"
      [] OTHER -> c

(* String::toLowerCase on one character *)
ToLowerChar(c) ==
    CASE c = "A" -> "a" [] c = "B" -> "b" [] c = "C" -> "c" [] c = "D" -> "d"
      [] c = "E" -> "e" [] c = "F" -> "f" [] c = "G" -> "g" [] c = "N" -> "n"
      [] c = "O" -> "o" [] c = "S" -> "s" [] c = "X" -> "x" [] c = "Y" -> "y"
      [] OTHER -> c

ToUpperCase(s) == [ i \in 1..Len(s) |-> ToUpperChar(s[i]) ]

ToLowerCase(s) == [ i \in 1..Len(s) |-> ToLowerChar(s[i]) ]

RECURSIVE TrimLeft(_)
TrimLeft(s) == IF s # << >> /\ Head(s) = " " THEN TrimLeft(Tail(s)) ELSE s

RECURSIVE TrimRight(_)
TrimRight(s) ==
    IF s # << >> /\ s[Len(s)] = " " THEN TrimRight(SubSeq(s, 1, Len(s) - 1)) ELSE s

(* String::trim *)
Trim(s) == TrimRight(TrimLeft(s))

(* Value of a base-16 digit, -1 for any other character *)
HexDigit(c) ==
    CASE c = "0" -> 0 [] c = "1" -> 1 [] c = "2" -> 2 [] c = "3" -> 3
      [] c = "4" -> 4 [] c = "5" -> 5 [] c = "6" -> 6 [] c = "7" -> 7
      [] c = "8" -> 8 [] c = "9" -> 9 [] c = "A" -> 10 [] c = "B" -> 11
      [] c = "C" -> 12 [] c = "D" -> 13 [] c = "E" -> 14 [] c = "F" -> 15
      [] OTHER -> -1

(* strtoul(s, &endPtr, 16) on text without sign, blank or a further 0x prefix:
   the value of the leading digits and the text left at endPtr *)
RECURSIVE Strtoul(_, _)
Strtoul(s, acc) ==
    IF s # << >> /\ HexDigit(Head(s)) >= 0
    THEN Strtoul(Tail(s), 16 * acc + HexDigit(Head(s)))
    ELSE [ v |-> acc, rest |-> s ]

(* parseHex (lines 43-56) *)
parseHex(sRaw) ==
    LET t == ToUpperCase(Trim(sRaw))
        u == IF Len(t) >= 2 /\ t[1] = "0" /\ t[2] = "X" THEN SubSeq(t, 3, Len(t)) ELSE t
        r == Strtoul(u, 0)
    IN IF Len(u) = 0 THEN [ ok |-> FALSE, v |-> 0 ]
       ELSE [ ok |-> (r.rest = << >>), v |-> U16(r.v) ]

(* readLineBlocking (lines 70-87): the printable characters typed before the
   newline, trimmed *)
readLineBlocking(typed) == Trim(typed)

(* parseHexPrompt (lines 89-108) on one response: accepted with a value, or
   "Invalid hex value. Try again." and the prompt is repeated *)
parseHexPrompt(resp, defaultVal, allowBlank) ==
    IF Len(resp) = 0 /\ allowBlank
    THEN [ accepted |-> TRUE, value |-> defaultVal ]
    ELSE LET p == parseHex(resp)
         IN IF p.ok /\ p.v <= 255
            THEN [ accepted |-> TRUE, value |-> U8(p.v) ]
            ELSE [ accepted |-> FALSE, value |-> 0 ]

(* ASCII code of the characters a typed name starts with in this model *)
CharCode(c) == CASE c = "A" -> 65 [] c = "C" -> 67 [] OTHER -> 63

-----------------------------------------------------------------------------
(* EEPROM-backed device storage *)

(* info.name[0] promoted to int: a plain char is signed on AVR, unsigned on ARM *)
CharAsInt(b, signed) == IF signed /\ b >= 128 THEN b - 256 ELSE b

(* eepromSlotUsed (lines 181-183) *)
eepromSlotUsed(rec, signed) ==
    /\ rec.address <= MAX_7BIT
    /\ CharAsInt(rec.name0, signed) # 255
    /\ CharAsInt(rec.name0, signed) # 0

(* findFreeEepromSlot that keeps the last free slot it sees *)
RECURSIVE FindFreeFrom_Last(_, _, _)
FindFreeFrom_Last(st, signed, i) ==
    IF i >= EEPROM_MAX_DEVICES THEN -1
    ELSE LET later == FindFreeFrom_Last(st, signed, i + 1)
         IN IF later >= 0 THEN later
            ELSE IF ~ eepromSlotUsed(st[i], signed) THEN i ELSE -1

(* The loop of findFreeEepromSlot from index i on *)
RECURSIVE FindFreeFrom(_, _, _)
FindFreeFrom(st, signed, i) ==
    IF i >= EEPROM_MAX_DEVICES THEN -1
    ELSE IF ~ eepromSlotUsed(st[i], signed) THEN i
         ELSE FindFreeFrom(st, signed, i + 1)

findFreeEepromSlot_Last(st, signed) == FindFreeFrom_Last(st, signed, 0)

(* findFreeEepromSlot (lines 195-202) *)
findFreeEepromSlot(st, signed) == FindFreeFrom(st, signed, 0)

(* EEPROM.put at the base of slot 0 whatever the slot argument *)
saveEepromDevice_Slot0(st, i, rec) == [ st EXCEPT ![0] = rec ]

(* saveEepromDevice (lines 190-193) *)
saveEepromDevice(st, i, rec) == [ st EXCEPT ![i] = rec ]

-----------------------------------------------------------------------------
(* Device identification *)

(* i2c_devices[] (lines 21-36); name0 is the first character of the name *)
i2c_devices ==
    << Record(104, 77, 117, 104, 255),
       Record(104, 77, 117, 113, 255),
       Record(118, 66, 208, 96, 255),
       Record(119, 66, 208, 96, 255),
       Record(35, 66, 255, 0, 0),
       Record(41, 84, 255, 0, 0),
       Record(64, 72, 255, 0, 0),
       Record(60, 79, 255, 0, 0),
       Record(61, 79, 255, 0, 0) >>

CatalogSize == NUM_I2C_DEVICES + EEPROM_MAX_DEVICES

(* The descriptor the walk of describeI2CAddress looks at in position i:
   the built-in table first, then the EEPROM slots in index order *)
CatalogEntry(st, i) ==
    IF i < NUM_I2C_DEVICES THEN i2c_devices[i + 1] ELSE st[i - NUM_I2C_DEVICES]

(* Whether position i reaches considerDeviceMatch: line 300 skips unused slots *)
Considered(st, signed, i) ==
    i < NUM_I2C_DEVICES \/ eepromSlotUsed(st[i - NUM_I2C_DEVICES], signed)

(* appendName (lines 206-209); a name is identified by its catalog position.
   Every descriptor that reaches it has a non-empty name, so the String is
   non-empty exactly when the sequence is. *)
appendName(dest, name) == Append(dest, name)

(* The comparison of considerDeviceMatch without the mask *)
IdMatches_NoMask(ok, chipId, e) == ok /\ chipId = e.expected_chip_id

(* ok && ((chipId & info.id_mask) == (info.expected_chip_id & info.id_mask)) *)
IdMatches(ok, chipId, e) ==
    ok /\ BitAnd(chipId, e.id_mask) = BitAnd(e.expected_chip_id, e.id_mask)

(* Outcomes of i2cReadRegister (lines 120-132): the pointer-set fails, the
   one-byte read is short, or a byte arrives *)
ReadValues == {0, 15, 104, 113, 255}

ReadOutcomes ==
    { [ ok |-> FALSE, err |-> 2, got |-> 0, value |-> 0 ],
      [ ok |-> FALSE, err |-> 0, got |-> 0, value |-> 0 ] }
    \cup { [ ok |-> TRUE, err |-> 0, got |-> 1, value |-> v ] : v \in ReadValues }

(* The branch of describeI2CAddress that prints, showing the possible names
   whenever there is a catalog entry *)
DisplayChoice_NoConfirmed(hasMatch, confirmed) ==
    IF hasMatch THEN "possible" ELSE "nomatch"

(* Lines 307-316: which of the three messages is printed *)
DisplayChoice(hasMatch, confirmed) ==
    IF hasMatch /\ Len(confirmed) > 0 THEN "confirmed"
    ELSE IF hasMatch THEN "possible"
    ELSE "nomatch"

-----------------------------------------------------------------------------
(* Idle values of the locals of the commands that are not running *)

IdleDesc ==
    /\ dAddr = 0 /\ idx = 0 /\ confirmedNames = << >> /\ possibleNames = << >>
    /\ hasDatabaseMatch = FALSE /\ reads = << >>
    /\ shown = [ kind |-> "none", names |-> << >> ]

IdleAdd ==
    /\ slot = -1 /\ info = NoRecord
    /\ answered = [ prompt |-> "none", text |-> << >> ]
    /\ addResult = "none"

IdleOcc == probe = NoRecord /\ used = "none"

ErasedStore == [ i \in 0..(EEPROM_MAX_DEVICES - 1) |-> ErasedRecord ]

-----------------------------------------------------------------------------
(* Specification of the ranged read alone: every address sample, every
   startReg and endReg, every transport behaviour.  No action of it reads
   the EEPROM or charSigned. *)

RangeAddrs == {104, 200}

InitRange ==
    /\ pc = "prompt"
    /\ charSigned = TRUE
    /\ store = ErasedStore
    /\ scanAddr = 0
    /\ IdleRange /\ IdleDesc /\ IdleAdd /\ IdleOcc

NextRange ==
    \/ ReadRangeCall(RangeAddrs, Byte, Byte)
    \/ RangePointerSet
    \/ RangeBurstRead
    \/ DumpReturn

SpecRange == InitRange /\ [][NextRange]_vars

(* The same engine on the boundary registers only, with the fairness of a
   single thread that keeps executing its loop: a loop iteration that can
   run does run. *)

BoundaryRegs == {0, 1, 15, 16, 17, 240, 254, 255}

NextRangeFair ==
    \/ ReadRangeCall({104}, BoundaryRegs, BoundaryRegs)
    \/ RangePointerSet
    \/ RangeBurstRead
    \/ DumpReturn

FairSpecRange ==
    /\ InitRange
    /\ [][NextRangeFair]_vars
    /\ WF_vars(RangePointerSet)
    /\ WF_vars(RangeBurstRead)

-----------------------------------------------------------------------------
(* Properties of i2cReadRange *)

InRangeCall == pc \in {"rangePtr", "rangeBurst", "rangeDone"}

RECURSIVE SumLen(_)
SumLen(c) == IF c = << >> THEN 0 ELSE c[1][2] + SumLen(Tail(c))

(* The lines printed so far start at startReg, follow one another without gap
   or overlap, and hold 1 to 16 bytes each *)
ChunksChained ==
    \A i \in 1..Len(chunks) :
       /\ chunks[i][2] \in 1..MAX_CHUNK
       /\ chunks[i][1] = (IF i = 1 THEN startReg
                          ELSE chunks[i - 1][1] + chunks[i - 1][2])
       /\ i > 1 => chunks[i][1] > chunks[i - 1][1]

(* C1: for startReg <= endReg, while the transport succeeds, the chunks
   emitted have strictly increasing offsets from startReg, 1 to 16 bytes each,
   each offset the previous offset plus its length; a call that returned
   success emitted chunks covering exactly [startReg, endReg]; and a call on
   0x00..0xFF is never done with fewer than 16 chunks of 16 bytes. *)
C1_ChunksPartitionRange ==
    (InRangeCall /\ startReg <= endReg /\ result # "false") =>
       /\ ChunksChained
       /\ result = "true" =>
            /\ Len(chunks) >= 1
            /\ SumLen(chunks) = endReg - startReg + 1
       /\ (result = "true" /\ startReg = 0 /\ endReg = 255) =>
            /\ Len(chunks) = 16
            /\ \A i \in 1..16 : chunks[i] = << 16 * (i - 1), 16 >>

(* C2: a readRange call that has entered its loop eventually returns. *)
C2_Terminates == (pc \in {"rangePtr", "rangeBurst"}) ~> (pc = "rangeDone")

(* C8: a call that failed in its loop reports the start register of the
   failing chunk; the failing transaction is the last one issued; the chunks
   emitted are complete, chained from startReg and cover exactly the registers
   below the reported offset, so none has that offset or a greater one. *)
C8_FailureStopsAtChunk ==
    (pc = "rangeDone" /\ result = "false" /\ startReg <= endReg) =>
       /\ Len(wire) >= 1
       /\ ~ wire[Len(wire)].ok
       /\ \A i \in 1..(Len(wire) - 1) : wire[i].ok
       /\ ChunksChained
       /\ errReg = startReg + SumLen(chunks)
       /\ \A i \in 1..Len(chunks) : chunks[i][1] < errReg

(* C9: in the transport trace of a readRange call every burst read directly
   follows a successful pointer-set to the same address whose register byte is
   the start register of the burst's chunk. *)
C9_BurstAfterOwnPointerSet ==
    InRangeCall =>
       \A i \in 1..Len(wire) :
          wire[i].kind = "burst" =>
             /\ i > 1
             /\ wire[i - 1].kind = "ptr"
             /\ wire[i - 1].ok
             /\ wire[i - 1].addr = addr
             /\ wire[i].addr = addr
             /\ (wire[i].ok /\ (i \div 2) <= Len(chunks)) =>
                    /\ i % 2 = 0
                    /\ chunks[i \div 2][1] = wire[i - 1].reg
             /\ ~ wire[i].ok => errReg = wire[i - 1].reg

(* A call that read three chunks, each after its own pointer-set *)
C9_Witness ==
    /\ pc = "rangeDone" /\ result = "true"
    /\ Len(chunks) = 3
    /\ Len(wire) = 6
    /\ wire[5].kind = "ptr" /\ wire[5].reg = chunks[3][1]
    /\ wire[6].kind = "burst"

(* C10: a call with startReg > endReg returns failure, has issued no
   transport transaction and emitted no chunk, and never enters the loop. *)
C10_InvalidRangeRejected ==
    (pc # "prompt" /\ startReg > endReg) =>
       /\ pc = "rangeDone"
       /\ result = "false"
       /\ wire = << >>
       /\ chunks = << >>

(* A rejected call *)
C10_Witness ==
    /\ pc = "rangeDone" /\ startReg = 16 /\ endReg = 15 /\ addr = 104
    /\ result = "false"

-----------------------------------------------------------------------------
(* The scan, the matcher and the guided add flow *)

(* Addresses at which a device may acknowledge: two built-in ones (0x23 with
   no identification register, 0x68 with two descriptors) and two unknown *)
BusCandidates == {35, 80, 81, 104}

(* What the operator may type at the [y/N] prompt *)
YesNoLines == { << >>, << "y" >>, << "Y", "E", "S" >>, << "n" >>, << "y", "e" >> }

(* What the operator may type at the name prompt *)
NameLines == { << >>, << " " >>, << "A" >> }

(* What the operator may type at a hex prompt *)
HexLines ==
    { << >>, << " " >>, << "F", "F" >>, << "0", "f" >>, << "0", "x", "0", "F" >>,
      << "G" >>, << "1", "0", "0" >>, << "F", " ", "F" >> }

ResetDesc ==
    /\ dAddr' = 0 /\ idx' = 0 /\ confirmedNames' = << >> /\ possibleNames' = << >>
    /\ hasDatabaseMatch' = FALSE /\ reads' = << >>
    /\ shown' = [ kind |-> "none", names |-> << >> ]

ResetAdd ==
    /\ slot' = -1 /\ info' = NoRecord
    /\ answered' = [ prompt |-> "none", text |-> << >> ]
    /\ addResult' = "none"

(* describeI2CAddress returns to the loop of cmdScan, which does addr++ *)
ReturnToScan ==
    /\ pc' = "scan"
    /\ scanAddr' = scanAddr + 1

(* cmdScan (lines 331-334): the command starts with addr = 1 *)
CmdScan ==
    /\ pc = "prompt"
    /\ pc' = "scan"
    /\ scanAddr' = 1
    /\ UNCHANGED << charSigned, store, rangeVars, descVars, addVars, occVars >>

(* One iteration of the loop of cmdScan (lines 334-340): the presence probe,
   and the entry into describeI2CAddress when the address acknowledges *)
ScanProbe ==
    /\ pc = "scan"
    /\ scanAddr < SCAN_END
    /\ \E err \in WireErrs :
         /\ err = 0 => scanAddr \in BusCandidates
         /\ IF err = 0
            THEN /\ pc' = "describe"
                 /\ dAddr' = scanAddr
                 /\ idx' = 0
                 /\ confirmedNames' = << >>
                 /\ possibleNames' = << >>
                 /\ hasDatabaseMatch' = FALSE
                 /\ reads' = << >>
                 /\ shown' = [ kind |-> "none", names |-> << >> ]
                 /\ UNCHANGED scanAddr
            ELSE /\ pc' = "scan"
                 /\ scanAddr' = scanAddr + 1
                 /\ ResetDesc
    /\ ResetAdd
    /\ UNCHANGED << charSigned, store, rangeVars, occVars >>

(* The loop of cmdScan ends (lines 334, 341): "Scan complete." *)
ScanDone ==
    /\ pc = "scan"
    /\ scanAddr >= SCAN_END
    /\ pc' = "prompt"
    /\ scanAddr' = 0
    /\ ResetDesc
    /\ ResetAdd
    /\ UNCHANGED << charSigned, store, rangeVars, occVars >>

(* The first position from i on whose descriptor reaches considerDeviceMatch
   and passes its address test (line 212); CatalogSize when there is none *)
RECURSIVE NextMatch(_, _, _, _)
NextMatch(st, signed, a, i) ==
    IF i >= CatalogSize THEN CatalogSize
    ELSE IF Considered(st, signed, i) /\ CatalogEntry(st, i).address = a THEN i
         ELSE NextMatch(st, signed, a, i + 1)

(* The two loops of describeI2CAddress (lines 291-302) up to and including
   the next iteration whose descriptor has the queried address, with its
   call of considerDeviceMatch (lines 211-229) and, in it, of i2cReadRegister
   (lines 120-132).  The iterations skipped over change nothing but the loop
   index. *)
DescribeStep ==
    /\ pc = "describe"
    /\ idx < CatalogSize
    /\ LET j == NextMatch(store, charSigned, dAddr, idx)
       IN IF j >= CatalogSize
          THEN /\ idx' = CatalogSize
               /\ UNCHANGED << confirmedNames, possibleNames, hasDatabaseMatch, reads >>
          ELSE LET e == CatalogEntry(store, j)
               IN /\ idx' = j + 1
                  /\ hasDatabaseMatch' = TRUE
                  /\ IF e.chip_id_reg = NO_ID_REG
                     THEN /\ possibleNames' = appendName(possibleNames, j)
                          /\ UNCHANGED << confirmedNames, reads >>
                     ELSE \E o \in ReadOutcomes :
                            /\ reads' = Append(reads, [ entry |-> j, addr |-> dAddr,
                                                        reg |-> e.chip_id_reg,
                                                        ok |-> o.ok, value |-> o.value ])
                            /\ IF IdMatches(o.ok, o.value, e)
                               THEN /\ confirmedNames' = appendName(confirmedNames, j)
                                    /\ UNCHANGED possibleNames
                               ELSE /\ possibleNames' = appendName(possibleNames, j)
                                    /\ UNCHANGED confirmedNames
    /\ UNCHANGED << pc, dAddr, shown, scanAddr >>
    /\ UNCHANGED << charSigned, store, rangeVars, addVars, occVars >>

(* The end of describeI2CAddress (lines 304-316): one of three messages, and
   the call of promptAddDeviceToEeprom after the third *)
Display ==
    /\ pc = "describe"
    /\ idx = CatalogSize
    /\ LET kind == DisplayChoice(hasDatabaseMatch, confirmedNames)
       IN /\ shown' = [ kind |-> kind,
                        names |-> IF kind = "confirmed" THEN confirmedNames
                                  ELSE IF kind = "possible" THEN possibleNames
                                  ELSE << >> ]
          /\ IF kind = "nomatch"
             THEN pc' = "askAdd" /\ UNCHANGED scanAddr
             ELSE ReturnToScan
    /\ UNCHANGED << dAddr, idx, confirmedNames, possibleNames, hasDatabaseMatch, reads >>
    /\ UNCHANGED << charSigned, store, rangeVars, addVars, occVars >>

(* promptAddDeviceToEeprom, lines 232-252: the [y/N] answer, the free-slot
   search and the initialisation of info *)
AskAdd ==
    /\ pc = "askAdd"
    /\ \E typed \in YesNoLines :
         LET resp == ToLowerCase(readLineBlocking(typed))
             free == findFreeEepromSlot(store, charSigned)
         IN /\ answered' = [ prompt |-> "add", text |-> readLineBlocking(typed) ]
            /\ IF ~ (resp = << "y" >> \/ resp = << "y", "e", "s" >>)
               THEN /\ addResult' = "declined"
                    /\ ReturnToScan
                    /\ UNCHANGED << slot, info >>
               ELSE /\ slot' = free
                    /\ IF free < 0
                       THEN /\ addResult' = "full"
                            /\ ReturnToScan
                            /\ UNCHANGED info
                       ELSE /\ addResult' = "none"
                            /\ info' = [ ErasedRecord EXCEPT !.address = dAddr,
                                                             !.id_mask = 255 ]
                            /\ pc' = "promptName"
                            /\ UNCHANGED scanAddr
    /\ UNCHANGED << charSigned, store, rangeVars, descVars, occVars >>

(* Lines 254-263: the name, "Custom 0x.." when blank *)
PromptName ==
    /\ pc = "promptName"
    /\ \E typed \in NameLines :
         LET name == readLineBlocking(typed)
         IN /\ answered' = [ prompt |-> "name", text |-> name ]
            /\ info' = [ info EXCEPT !.name0 = IF Len(name) = 0 THEN CharCode("C")
                                               ELSE CharCode(name[1]) ]
    /\ pc' = "promptReg"
    /\ UNCHANGED << slot, addResult, scanAddr >>
    /\ UNCHANGED << charSigned, store, rangeVars, descVars, occVars >>

(* Line 269: the last argument of parseHexPrompt for the chip ID register *)
ChipRegAllowBlank_Yes == TRUE

ChipRegAllowBlank == FALSE

(* Lines 268-270: the chip ID register *)
PromptReg ==
    /\ pc = "promptReg"
    /\ \E typed \in HexLines :
         LET resp == readLineBlocking(typed)
             r    == parseHexPrompt(resp, 255, ChipRegAllowBlank)
         IN /\ answered' = [ prompt |-> "reg", text |-> resp ]
            /\ IF r.accepted
               THEN /\ info' = [ info EXCEPT !.chip_id_reg = r.value ]
                    /\ pc' = "promptVal"
               ELSE UNCHANGED << info, pc >>
    /\ UNCHANGED << slot, addResult, scanAddr >>
    /\ UNCHANGED << charSigned, store, rangeVars, descVars, occVars >>

(* Lines 272-274: the expected chip ID, 0x00 when blank *)
PromptVal ==
    /\ pc = "promptVal"
    /\ \E typed \in HexLines :
         LET resp == readLineBlocking(typed)
             r    == parseHexPrompt(resp, 0, TRUE)
         IN /\ answered' = [ prompt |-> "val", text |-> resp ]
            /\ IF r.accepted
               THEN /\ info' = [ info EXCEPT !.expected_chip_id = r.value ]
                    /\ pc' = "promptMask"
               ELSE UNCHANGED << info, pc >>
    /\ UNCHANGED << slot, addResult, scanAddr >>
    /\ UNCHANGED << charSigned, store, rangeVars, descVars, occVars >>

(* Lines 276-283: the mask, 0xFF when blank, then saveEepromDevice and
   "Saved to EEPROM slot" *)
PromptMask ==
    /\ pc = "promptMask"
    /\ \E typed \in HexLines :
         LET resp == readLineBlocking(typed)
             r    == parseHexPrompt(resp, 255, TRUE)
             done == [ info EXCEPT !.id_mask = r.value ]
         IN /\ answered' = [ prompt |-> "mask", text |-> resp ]
            /\ IF r.accepted
               THEN /\ info' = done
                    /\ store' = saveEepromDevice(store, slot, done)
                    /\ addResult' = "saved"
                    /\ ReturnToScan
               ELSE UNCHANGED << info, store, addResult, pc, scanAddr >>
    /\ UNCHANGED slot
    /\ UNCHANGED << charSigned, rangeVars, descVars, occVars >>

-----------------------------------------------------------------------------
(* The shell.  The EEPROM keeps what earlier sessions saved: the store starts
   as k guided adds with default answers have left an erased EEPROM, for
   devices at PriorBase, PriorBase + 1, ... that are no longer on the bus. *)

PriorBase == 16

PriorCounts == {0, 7, 8}

PriorStore(k) ==
    [ i \in 0..(EEPROM_MAX_DEVICES - 1) |->
        IF i < k THEN Record(PriorBase + i, CharCode("C"), 255, 0, 255)
        ELSE ErasedRecord ]

Init ==
    /\ pc = "prompt"
    /\ charSigned \in BOOLEAN
    /\ \E k \in PriorCounts : store = PriorStore(k)
    /\ scanAddr = 0
    /\ IdleRange /\ IdleDesc /\ IdleAdd /\ IdleOcc

Next ==
    \/ CmdScan
    \/ ScanProbe
    \/ ScanDone
    \/ DescribeStep
    \/ Display
    \/ AskAdd
    \/ PromptName
    \/ PromptReg
    \/ PromptVal
    \/ PromptMask

Spec == Init /\ [][Next]_vars

-----------------------------------------------------------------------------
(* eepromSlotUsed alone, on every address byte and first name byte *)

InitOcc ==
    /\ pc = "occ"
    /\ charSigned \in BOOLEAN
    /\ store = ErasedStore
    /\ scanAddr = 0
    /\ IdleRange /\ IdleDesc /\ IdleAdd
    /\ \E a \in Byte, n \in Byte : probe = Record(a, n, 255, 0, 255)
    /\ used = "none"

OccCheck ==
    /\ pc = "occ"
    /\ used' = IF eepromSlotUsed(probe, charSigned) THEN "true" ELSE "false"
    /\ pc' = "occDone"
    /\ UNCHANGED << charSigned, store, scanAddr, rangeVars, descVars, addVars, probe >>

NextOcc == OccCheck

SpecOcc == InitOcc /\ [][NextOcc]_vars

-----------------------------------------------------------------------------
(* Properties of the matcher, the display and the store *)

(* A slot is free: address outside 0..127, or first name byte erased (0xFF)
   or empty (0) *)
SlotFree(rec) == rec.address > 127 \/ rec.name0 = 255 \/ rec.name0 = 0

(* The catalog: every built-in descriptor and every occupied slot *)
InCatalog(c) == c < NUM_I2C_DEVICES \/ ~ SlotFree(store[c - NUM_I2C_DEVICES])

(* The catalog positions whose descriptor has the queried address *)
Matching == { c \in 0..(CatalogSize - 1) : InCatalog(c) /\ CatalogEntry(store, c).address = dAddr }

Count(seq, x) == Cardinality({ i \in 1..Len(seq) : seq[i] = x })

(* C3: while and after describeI2CAddress walks the catalog, every catalog
   descriptor with the queried address that the walk has passed is in exactly
   one of confirmedNames and possibleNames, once; it is in confirmedNames
   exactly when its id register is not 0xFF and its register read succeeded
   with (value & mask) = (expected & mask); a descriptor with id register
   0xFF caused no read, any other exactly one read, of its id register at the
   queried address; and whatever the reads returned, the walk classifies
   every such descriptor up to the end of the catalog. *)
C3_Classification ==
    (pc \in {"describe", "askAdd"} \/ (pc = "scan" /\ shown.kind \in {"confirmed", "possible"})) =>
       /\ \A c \in Matching :
             c < idx =>
                LET e   == CatalogEntry(store, c)
                    rds == { i \in 1..Len(reads) : reads[i].entry = c }
                IN /\ Count(confirmedNames, c) + Count(possibleNames, c) = 1
                   /\ (Count(confirmedNames, c) = 1) <=>
                         /\ e.chip_id_reg # 255
                         /\ \E i \in rds :
                               /\ reads[i].ok
                               /\ BitAnd(reads[i].value, e.id_mask)
                                    = BitAnd(e.expected_chip_id, e.id_mask)
                   /\ e.chip_id_reg = 255 => rds = {}
                   /\ e.chip_id_reg # 255 =>
                         /\ Cardinality(rds) = 1
                         /\ \A i \in rds : reads[i].reg = e.chip_id_reg /\ reads[i].addr = dAddr
       /\ \A i \in 1..Len(confirmedNames) : confirmedNames[i] \in Matching
       /\ \A i \in 1..Len(possibleNames) : possibleNames[i] \in Matching
       /\ shown.kind # "none" => idx = CatalogSize

(* The first descriptor at 0x68 failed its read and is possible, the second
   was still read and is confirmed *)
C3_Witness ==
    /\ pc = "describe" /\ idx = CatalogSize /\ dAddr = 104
    /\ possibleNames = << 0 >> /\ confirmedNames = << 1 >>
    /\ Len(reads) = 2 /\ ~ reads[1].ok /\ reads[2].ok

AddPcs == {"askAdd", "promptName", "promptReg", "promptVal", "promptMask"}

(* The add flow has been offered for the address just described *)
AddOffered == pc \in AddPcs \/ addResult \in {"declined", "full"}

(* C4: once describeI2CAddress has printed: if a descriptor is confirmed, the
   confirmed names and nothing else are shown; else if some built-in
   descriptor or occupied slot has the address, the possible names are shown;
   else no-match is reported; and the add flow is offered exactly when no
   built-in descriptor and no occupied slot has the address. *)
C4_DisplayPolicy ==
    (shown.kind # "none" /\ addResult # "saved") =>
       /\ IF confirmedNames # << >>
          THEN /\ shown.kind = "confirmed"
               /\ shown.names = confirmedNames
               /\ \A i \in 1..Len(possibleNames) :
                     possibleNames[i] \notin SeqRange(shown.names)
          ELSE IF Matching # {}
          THEN /\ shown.kind = "possible"
               /\ shown.names = possibleNames
               /\ SeqRange(possibleNames) = Matching
          ELSE /\ shown.kind = "nomatch"
               /\ shown.names = << >>
       /\ AddOffered <=> Matching = {}

(* Two descriptors share 0x68: one confirmed, one possible, only the confirmed
   one is shown *)
C4_Witness ==
    /\ shown.kind = "confirmed" /\ dAddr = 104
    /\ Len(confirmedNames) = 1 /\ Len(possibleNames) = 1
    /\ shown.names = confirmedNames

(* The [y/N] answers that accept *)
YesAnswers == { << "y" >>, << "Y", "E", "S" >> }

FreeSlots == { i \in 0..(EEPROM_MAX_DEVICES - 1) : SlotFree(store[i]) }

(* C5: when the operator accepts the add, the slot chosen is the lowest free
   index; there is none exactly when all 8 slots are occupied, and then the
   flow reports store full and no slot changes. *)
C5_FindFreeSlot ==
    [][ (pc = "askAdd" /\ answered'.prompt = "add" /\ answered'.text \in YesAnswers) =>
           IF FreeSlots = {}
           THEN /\ slot' = -1
                /\ addResult' = "full"
                /\ pc' = "scan"
                /\ store' = store
           ELSE /\ slot' \in FreeSlots
                /\ \A i \in FreeSlots : slot' <= i
                /\ addResult' = "none"
                /\ pc' = "promptName"
                /\ store' = store ]_vars

(* An add was accepted with all 8 slots occupied and reported store full *)
C5_Witness ==
    /\ addResult = "full" /\ slot = -1
    /\ FreeSlots = {}
    /\ answered.text \in YesAnswers

(* What the operator means by the valid hex answers *)
Meant == (<< "F", "F" >> :> 255) @@ (<< "0", "f" >> :> 15) @@ (<< "0", "x", "0", "F" >> :> 15)

(* C6 as claimed: a blank answer at the register prompt stores id register
   0xFF and the flow goes on; a blank answer at the mask prompt stores mask
   0xFF; a typed value is stored as given. *)
C6_BlankDefaults ==
    /\ (answered.prompt = "reg" /\ answered.text = << >>) =>
          /\ pc = "promptVal"
          /\ info.chip_id_reg = 255
    /\ (answered.prompt = "reg" /\ answered.text \in DOMAIN Meant) =>
          /\ pc = "promptVal"
          /\ info.chip_id_reg = Meant[answered.text]
    /\ (answered.prompt = "mask" /\ answered.text = << >>) =>
          /\ addResult = "saved"
          /\ store[slot].id_mask = 255
    /\ (answered.prompt = "mask" /\ answered.text \in DOMAIN Meant) =>
          /\ addResult = "saved"
          /\ store[slot].id_mask = Meant[answered.text]

(* C6 as amended: a blank answer at the register prompt is refused and the
   prompt repeated, nothing being stored; the flow passes the register prompt
   only with a typed value, which becomes the id register; a blank answer
   stores expected id 0x00 and mask 0xFF, a typed value is stored as given;
   and the record saved is the one built, in the slot found, for the address
   described. *)
C6_BlankRegisterRefused ==
    /\ (answered.prompt = "reg" /\ answered.text = << >>) =>
          /\ pc = "promptReg"
          /\ addResult = "none"
          /\ store[slot] # info
    /\ (answered.prompt = "reg" /\ pc # "promptReg") =>
          /\ pc = "promptVal"
          /\ answered.text \in DOMAIN Meant
          /\ info.chip_id_reg = Meant[answered.text]
    /\ (answered.prompt = "val" /\ answered.text = << >>) =>
          /\ pc = "promptMask"
          /\ info.expected_chip_id = 0
    /\ (answered.prompt = "val" /\ answered.text \in DOMAIN Meant) =>
          /\ pc = "promptMask"
          /\ info.expected_chip_id = Meant[answered.text]
    /\ (answered.prompt = "mask" /\ answered.text = << >>) =>
          /\ addResult = "saved"
          /\ store[slot].id_mask = 255
    /\ (answered.prompt = "mask" /\ answered.text \in DOMAIN Meant) =>
          /\ addResult = "saved"
          /\ store[slot].id_mask = Meant[answered.text]
    /\ addResult = "saved" =>
          /\ store[slot] = info
          /\ info.address = dAddr
          /\ info.chip_id_reg \in { Meant[t] : t \in DOMAIN Meant }

(* The operator answered the register prompt with a blank line and is asked
   again *)
C6_Witness ==
    /\ pc = "promptReg"
    /\ answered.prompt = "reg" /\ answered.text = << >>
    /\ info.chip_id_reg = 255

(* C7: eepromSlotUsed reports a record free exactly when its address is above
   127 or its first name byte is 0xFF or 0. *)
C7_OccupancyTest ==
    pc = "occDone" =>
       ((used = "false") <=> (probe.address > 127 \/ probe.name0 = 255 \/ probe.name0 = 0))

-----------------------------------------------------------------------------
(* i2cWriteRegister and i2cReadRegister *)

(* endTransmission() after beginTransmission(a); write(r); write(v) *)
WriteTxn(a, r, v, err) ==
    [ kind |-> "write", addr |-> a, reg |-> r, n |-> 0, ok |-> (err = 0), value |-> v ]

(* i2cWriteRegister(a, r, v), lines 112-118: one transaction, true iff it
   ended with 0.  The address is handed to the transport as received. *)
WriteRegisterEnter(a, r, v) ==
    /\ addr' = a /\ startReg' = r /\ endReg' = r /\ reg' = r
    /\ errReg' = -1 /\ chunks' = << >>
    /\ \E err \in WireErrs :
         /\ wire' = << WriteTxn(a, r, v, err) >>
         /\ result' = IF err = 0 THEN "true" ELSE "false"
    /\ pc' = "regDone"

(* i2cReadRegister(a, r, value), lines 120-132: the pointer-set, then a
   one-byte request when the pointer-set ended with 0 *)
ReadRegisterEnter(a, r) ==
    /\ addr' = a /\ startReg' = r /\ endReg' = r /\ reg' = r
    /\ errReg' = -1 /\ chunks' = << >>
    /\ \E o \in ReadOutcomes :
         /\ wire' = IF o.err # 0 THEN << PtrTxn(a, r, o.err) >>
                    ELSE << PtrTxn(a, r, o.err), BurstTxn(a, 1, o.got) >>
         /\ result' = IF o.ok THEN "true" ELSE "false"
    /\ pc' = "regDone"

(* cmdRead or cmdWrite prints the outcome and returns to loop() *)
RegReturn ==
    /\ pc = "regDone"
    /\ pc' = "prompt"
    /\ addr' = 0 /\ startReg' = 0 /\ endReg' = 0 /\ reg' = 0
    /\ result' = "none" /\ errReg' = -1 /\ chunks' = << >> /\ wire' = << >>
    /\ UNCHANGED << charSigned, store, scanAddr, descVars, addVars, occVars >>

(* A call i2cWriteRegister(a, r, v) with a in A, r in R, v in V *)
WriteRegisterCall(A, R, V) ==
    /\ pc = "prompt"
    /\ \E a \in A, r \in R, v \in V : WriteRegisterEnter(a, r, v)
    /\ UNCHANGED << charSigned, store, scanAddr, descVars, addVars, occVars >>

(* A call i2cReadRegister(a, r, value) with a in A, r in R *)
ReadRegisterCall(A, R) ==
    /\ pc = "prompt"
    /\ \E a \in A, r \in R : ReadRegisterEnter(a, r)
    /\ UNCHANGED << charSigned, store, scanAddr, descVars, addVars, occVars >>

-----------------------------------------------------------------------------
(* Specification of the three engine operations called on their own, with
   addresses on both sides of the 7-bit limit *)

EngineAddrs == {0, 104, 127, 128, 200, 255}

NextEngine ==
    \/ WriteRegisterCall(EngineAddrs, BoundaryRegs, ReadValues)
    \/ ReadRegisterCall(EngineAddrs, BoundaryRegs)
    \/ ReadRangeCall(EngineAddrs, BoundaryRegs, {0, 16})
    \/ RangePointerSet
    \/ RangeBurstRead
    \/ DumpReturn
    \/ RegReturn

SpecEngine == InitRange /\ [][NextEngine]_vars

EnginePcs == {"rangePtr", "rangeBurst", "rangeDone", "regDone"}

(* C11: an engine operation (i2cReadRegister, i2cWriteRegister, i2cReadRange)
   called with an address above 127 issues no transport transaction and
   returns failure. *)
C11_EngineRejectsBadAddress ==
    (pc \in EnginePcs /\ addr > MAX_7BIT) =>
        /\ wire = << >>
        /\ pc \in {"rangeDone", "regDone"} => result = "false"

-----------------------------------------------------------------------------
(* cmdDump, cmdRead, cmdWrite: the argument checks and the engine call *)

(* What the operator may type as an address argument: 0x68, 0x50, 0x80, junk *)
AddrTokens == { << "6", "8" >>, << "0", "x", "5", "0" >>, << "8", "0" >>, << "G" >> }

(* What the operator may type as a register or value argument: 0x00, 0x10,
   0x100 *)
RegTokens == { << "0" >>, << "1", "0" >>, << "1", "0", "0" >> }

(* The test applied to every register and value argument (lines 364, 372,
   403, 438, 443) *)
ByteArgBad(p) == ~ p.ok \/ p.v > 255

(* The test applied to the address argument (lines 352, 398, 433) *)
AddrArgBad(p) == ~ p.ok \/ p.v > MAX_7BIT

(* cmdDump (lines 344-389) with n tokens on the line, the command included:
   usage or "Invalid ..." and return, else i2cReadRange with start defaulting
   to 0x00 and end to 0xFF *)
CmdDump ==
    /\ pc = "prompt"
    /\ \E n \in 1..4, ta \in AddrTokens, ts \in RegTokens, te \in RegTokens :
         LET a == parseHex(ta)
             s == parseHex(ts)
             e == parseHex(te)
         IN IF \/ n < 2
               \/ AddrArgBad(a)
               \/ (n >= 3 /\ ByteArgBad(s))
               \/ (n >= 4 /\ ByteArgBad(e))
            THEN UNCHANGED << pc, rangeVars >>
            ELSE ReadRangeEnter(U8(a.v),
                                IF n >= 3 THEN U8(s.v) ELSE 0,
                                IF n >= 4 THEN U8(e.v) ELSE 255)
    /\ UNCHANGED << charSigned, store, scanAddr, descVars, addVars, occVars >>

(* cmdRead (lines 391-424) *)
CmdRead ==
    /\ pc = "prompt"
    /\ \E n \in 2..3, ta \in AddrTokens, tr \in RegTokens :
         LET a == parseHex(ta)
             r == parseHex(tr)
         IN IF n < 3 \/ AddrArgBad(a) \/ ByteArgBad(r)
            THEN UNCHANGED << pc, rangeVars >>
            ELSE ReadRegisterEnter(U8(a.v), U8(r.v))
    /\ UNCHANGED << charSigned, store, scanAddr, descVars, addVars, occVars >>

(* cmdWrite (lines 426-464) *)
CmdWrite ==
    /\ pc = "prompt"
    /\ \E n \in 3..4, ta \in AddrTokens, tr \in RegTokens, tv \in RegTokens :
         LET a == parseHex(ta)
             r == parseHex(tr)
             v == parseHex(tv)
         IN IF n < 4 \/ AddrArgBad(a) \/ ByteArgBad(r) \/ ByteArgBad(v)
            THEN UNCHANGED << pc, rangeVars >>
            ELSE WriteRegisterEnter(U8(a.v), U8(r.v), U8(v.v))
    /\ UNCHANGED << charSigned, store, scanAddr, descVars, addVars, occVars >>

(* The whole shell: every command of handleLine that touches the bus or the
   EEPROM *)
NextShell ==
    \/ CmdScan
    \/ ScanProbe
    \/ ScanDone
    \/ DescribeStep
    \/ Display
    \/ AskAdd
    \/ PromptName
    \/ PromptReg
    \/ PromptVal
    \/ PromptMask
    \/ CmdDump
    \/ RangePointerSet
    \/ RangeBurstRead
    \/ DumpReturn
    \/ CmdRead
    \/ CmdWrite
    \/ RegReturn

SpecShell == Init /\ [][NextShell]_vars

Slots == 0..(EEPROM_MAX_DEVICES - 1)

(* C12: the EEPROM changes only in the step that completes a guided add; that
   step writes exactly the slot the free-slot search returned, the first free
   one, which was free before the write; every other slot keeps its content,
   an occupied slot is never modified, and dump, read, write, classification
   and a declined or store-full add leave all 8 slots unchanged. *)
C12_StoreFrame ==
    [][ /\ store' # store =>
             /\ pc = "promptMask"
             /\ addResult' = "saved"
             /\ slot \in FreeSlots
             /\ \A j \in FreeSlots : slot <= j
             /\ store'[slot] = info'
             /\ \A i \in Slots \ {slot} : store'[i] = store[i]
        /\ \A i \in Slots : ~ SlotFree(store[i]) => store'[i] = store[i]
        /\ (pc \in EnginePcs \cup {"prompt", "scan", "describe"}) => store' = store
        /\ addResult' \in {"declined", "full"} => store' = store
      ]_vars

(* A guided add has completed into the last slot of a store that already held
   seven descriptors *)
C12_Witness ==
    /\ addResult = "saved"
    /\ slot = EEPROM_MAX_DEVICES - 1
    /\ store[slot] = info
    /\ \A i \in Slots : ~ SlotFree(store[i])

-----------------------------------------------------------------------------
(* The scan and the guided add flow started on an EEPROM that holds no
   descriptor: erased, or with bytes left by an earlier use of the EEPROM
   that make no slot occupied *)

(* Slot contents that are not a descriptor: erased; an address with an erased
   name; an address with an empty name; a name with an address above 127 *)
FreeRecords ==
    { ErasedRecord,
      Record(80, 255, 255, 0, 255),
      Record(80, 0, 255, 0, 255),
      Record(200, CharCode("A"), 255, 0, 255) }

(* How many leading slots hold such bytes *)
StaleCounts == {0, 1, EEPROM_MAX_DEVICES}

FreshStore(f, n) ==
    [ i \in Slots |-> IF i < n THEN f ELSE ErasedRecord ]

InitFresh ==
    /\ pc = "prompt"
    /\ charSigned \in BOOLEAN
    /\ \E f \in FreeRecords, n \in StaleCounts : store = FreshStore(f, n)
    /\ scanAddr = 0
    /\ IdleRange /\ IdleDesc /\ IdleAdd /\ IdleOcc

SpecFresh == InitFresh /\ [][Next]_vars

Occupied == Slots \ FreeSlots

BuiltInAddresses == { i2c_devices[i].address : i \in 1..NUM_I2C_DEVICES }

(* C13: from a store whose 8 slots are all free, after any scans and adds the
   slot an add has written is occupied, the occupied slots are the indices
   0..k-1 for some k <= 8, no two occupied slots hold the same address, and
   no occupied slot holds the address of a built-in descriptor. *)
C13_StoreShape ==
    /\ addResult = "saved" => slot \in Occupied
    /\ \E k \in 0..EEPROM_MAX_DEVICES : Occupied = 0..(k - 1)
    /\ \A i, j \in Occupied : store[i].address = store[j].address => i = j
    /\ \A i \in Occupied : store[i].address \notin BuiltInAddresses

====
